---- MODULE Spec2Model ----
(***************************************************************************)
(* Model of lyricsmaster's fetch orchestrator, LyricsProvider.get_lyrics   *)
(* (src/lyricsmaster/providers.py), with the gevent worker pool it uses,   *)
(* the Tor controller (src/lyricsmaster/utils.py) and the domain model     *)
(* (src/lyricsmaster/models.py).                                           *)
(*                                                                         *)
(* One call of get_lyrics is followed from its first line to its return    *)
(* or to the exception that leaves it.  The orchestrator is one process    *)
(* (pc); every greenlet spawned into the pool is a process of its own      *)
(* whose position is the status field of its entry in results.             *)
(*                                                                         *)
(* Strings that the code inspects (titles, link texts, filters) are        *)
(* sequences of one-character strings, so that str.lower() and the "in"    *)
(* substring test are computed, not assumed.                               *)
(*                                                                         *)
(* The specifications share the variables:                                 *)
(*   Spec      one call of get_lyrics;                                     *)
(*   FairSpec  the same call under fair scheduling;                        *)
(*   PoolSpec  the downloads of one album of up to MaxLinks songs;         *)
(*   MainSpec  the command line entry point around get_lyrics;             *)
(*   TwiceSpec two calls of get_lyrics in a row on an unchanged source;    *)
(*   CallSpec  one method called on its own (get_page, create_song,        *)
(*             get_album_infos of each adapter, renew_tor_circuit);        *)
(*   IterSpec  the traversal of an Album or a Discography;                 *)
(*   PairSpec  two traversals of one container at once;                    *)
(*   StoreSpec item assignment and deletion on a container;                *)
(*   SaveSpec  save of an Album or a Discography.                          *)
(* Each leaves the variables of the others at rest.                        *)
(***************************************************************************)
EXTENDS Integers, Sequences, FiniteSets

\* ---------------------------------------------------------------- bounds
MaxAlbums == 2
MaxSongs == 2

\* ------------------------------------------------------ program constants
PoolSize == 25
ControlPort == 9051

\* ----------------------------------------------------------------- values
\* None where a Song, an Album or a Discography is expected, and None where
\* a string (lyrics, writers) is expected.
None == [kind |-> "None"]
NoText == "None"
Unbound == <<"<unbound>">>
NoError == "none"

\* The sequences of length at most n over S.
SeqsUpTo(S, n) == UNION {[1..k -> S] : k \in 0..n}

\* ---------------------------------------------------------------- strings
UpperToLower == [c \in {"D", "E", "I", "L", "N", "O", "W"} |->
                   CASE c = "D" -> "d" [] c = "E" -> "e" [] c = "I" -> "i"
                     [] c = "L" -> "l" [] c = "N" -> "n" [] c = "O" -> "o"
                     [] c = "W" -> "w"]

\* str.lower(), character by character.
lower(s) == [i \in DOMAIN s |->
               IF s[i] \in DOMAIN UpperToLower THEN UpperToLower[s[i]] ELSE s[i]]

\* Python's "a in b" on strings: a is a contiguous part of b.
contains(b, a) == \E i \in 0..(Len(b) - Len(a)) : SubSeq(b, i + 1, i + Len(a)) = a

\* Broken variant: the comparison is case-sensitive.
MatchesFilterCaseSensitive(filter, text) == contains(text, filter)

\* filter.lower() in text.lower()
MatchesFilter(filter, text) == contains(lower(text), lower(filter))

\* [x for x in seq if Test(x)], keeping the order of seq.
RECURSIVE SelectIdx(_, _, _)
SelectIdx(seq, keep, i) ==
    IF i > Len(seq) THEN <<>>
    ELSE (IF i \in keep THEN <<seq[i]>> ELSE <<>>) \o SelectIdx(seq, keep, i + 1)

\* ----------------------------------------------------------------- inputs
Artists == {"Reggie Watts"}
Titles == {<<"D", "e", "m", "o">>, <<"L", "i", "v", "e">>}
Dates == {"Unknown", "1994"}
\* The release date that goes with a title on the artist page.
DateOf(t) == IF t = <<"D", "e", "m", "o">> THEN "Unknown" ELSE "1994"
LinkTexts == {<<"I", "n", "t", "r", "o">>, <<"O", "u", "t", "r", "o">>}
\* A filter that was not given is None; "if album:" treats None and the
\* empty string alike, and both are the empty sequence here.
NoFilter == <<>>
AlbumFilters == {NoFilter, <<"d", "E">>}
SongFilters == {NoFilter, <<"i", "N">>}

\* An album marker: what get_album_infos makes of it.  raises names the
\* exception get_album_infos leaves with, "none" when it returns.
Markers ==
    {[title |-> t, release_date |-> DateOf(t), raises |-> "none"] : t \in Titles}
    \cup {[title |-> Unbound, release_date |-> "Unknown", raises |-> e] :
            e \in {"ValueError", "IndexError"}}

\* A song link: its visible text.
Links == {[text |-> t] : t \in LinkTexts}

\* The Tor configurations: no controller, a controller without a control
\* channel, a controller with one.  controlport 0 stands for None.
TorControllers ==
    {[present |-> FALSE, controlport |-> 0],
     [present |-> TRUE, controlport |-> 0],
     [present |-> TRUE, controlport |-> ControlPort]}

\* What a song worker can meet: a page with lyrics, a page that is absent (a
\* link marked as non-existent, or a page failing the presence check), a
\* failed fetch, a page without the lyrics markup.
WorkerOutcomes == {"song", "absent", "fetch_failed", "extract_error"}

VARIABLES
    pc,             \* position of the orchestrator in get_lyrics
    artist,         \* argument artist
    album,          \* argument album (the album filter), NoFilter when absent
    song,           \* argument song (the song filter), NoFilter when absent
    tor_controller, \* self.tor_controller
    session,        \* self.session: the identity of the session object
    artist_page,    \* what get_artist_page met: "unset", "no_url",
                    \* "fetch_failed", "absent", "found"
    raw_html,       \* local raw_html: "unset", "None", "page"
    all_albums,     \* the markers get_albums returned
    albums,         \* local albums (after the album filter)
    idx,            \* position of the for loop in albums
    album_title,    \* local album_title, Unbound before its first binding
    release_date,   \* local release_date
    all_links,      \* the links get_songs returned for the current album
    song_links,     \* local song_links (after the song filter)
    results,        \* the greenlets of the current pool, in spawn order
    finished,       \* the positions of results in the order they completed
    album_objects,  \* local album_objects
    rotations,      \* number of calls of renew_tor_circuit
    renewed,        \* what the last call of renew_tor_circuit ended with
    discography,    \* the value get_lyrics returned, "unset" record before
    error,          \* the exception that left get_lyrics, NoError if none
    call,           \* a call of one method: its name and its arguments
    ret,            \* what that call gave, Pending before it was made
    obj,            \* an Album or a Discography that is iterated over
    loop,           \* the for loop over obj: "none", "running", "exhausted"
                    \* (it met StopIteration), "left" (it was broken out of)
    yielded,        \* what the loop has been given so far
    from_idx,       \* obj.__idx__ when the loop began
    after_complete, \* the loop began right after one that was exhausted
    rev,            \* list(reversed(obj)), Pending before it was asked for
    pair,           \* two for loops over obj at once: the state of each and
                    \* what it has been given, <<>> when there are none
    calls,          \* the number of the call of get_lyrics: 1, then 2
    first,          \* what the first call returned, once a second is made
    source          \* what the source has shown of itself so far

\* The variables of one call of get_lyrics.
orchestrator ==
    <<pc, artist, album, song, tor_controller, session, artist_page,
      raw_html, all_albums, albums, idx, album_title, release_date,
      all_links, song_links, results, finished, album_objects, rotations,
      renewed, discography, error>>

\* The variables of a method called on its own.
calling == <<call, ret>>

\* The variables of the traversal of a container.
iterating == <<obj, loop, yielded, from_idx, after_complete, rev, pair>>

\* The variables of a second call of get_lyrics on the same source.
replaying == <<calls, first, source>>

\* The variables of what is done with the library outside get_lyrics.
aux == <<calling, iterating, replaying>>

vars == <<orchestrator, aux>>

Unset == [kind |-> "unset"]

\* No method is being called on its own.
NoCall == [fn |-> "none"]
Pending == [pending |-> TRUE]
CallIdle ==
    /\ call = NoCall
    /\ ret = Pending

\* No container is being traversed.
ContainerIdle ==
    /\ obj = Unset
    /\ loop = "none"
    /\ yielded = <<>>
    /\ from_idx = 0
    /\ after_complete = FALSE
    /\ rev = Pending
    /\ pair = <<>>

\* The source as far as it is known: what the artist page is, the album
\* markers on it, the song links of each album that was asked for, and the
\* page behind each song link.
NoSource ==
    [met |-> "unset", markers |-> Unset, links |-> <<>>,
     pages |-> [t \in LinkTexts |-> "unknown"]]

\* get_lyrics is called for the first time.
ReplayIdle ==
    /\ calls = 1
    /\ first = Unset
    /\ source = NoSource

AuxIdle ==
    /\ CallIdle
    /\ ContainerIdle
    /\ ReplayIdle

\* ----------------------------------------------------------- domain model
\* models.Song(title, album, artist, lyrics, writers)
Song(title, album_, artist_, lyrics, writers) ==
    [kind |-> "Song", title |-> title, album |-> album_, artist |-> artist_,
     lyrics |-> lyrics, writers |-> writers]

\* models.Album(title, artist, songs, release_date)
Album(title, artist_, songs, release_date_) ==
    [kind |-> "Album", idx |-> 0, title |-> title, artist |-> artist_,
     release_date |-> release_date_, songs |-> songs]

\* models.Discography(artist, albums)
Discography(artist_, albums_) ==
    [kind |-> "Discography", idx |-> 0, artist |-> artist_, albums |-> albums_]

\* ------------------------------------------------------------ Tor helpers
\* self.tor_controller and self.tor_controller.controlport
HasControlChannel ==
    tor_controller.present /\ tor_controller.controlport # 0

\* ------------------------------------------------------------------- Init
\* The provider has been constructed (its session exists) and get_lyrics
\* is about to be called with its arguments.
Init ==
    /\ pc = "start"
    /\ artist \in Artists
    /\ album \in AlbumFilters
    /\ song \in SongFilters
    /\ tor_controller \in TorControllers
    /\ session = 0
    /\ artist_page = "unset"
    /\ raw_html = "unset"
    /\ all_albums = <<>>
    /\ albums = <<>>
    /\ idx = 1
    /\ album_title = Unbound
    /\ release_date = "unset"
    /\ all_links = <<>>
    /\ song_links = <<>>
    /\ results = <<>>
    /\ finished = <<>>
    /\ album_objects = <<>>
    /\ rotations = 0
    /\ renewed = "none"
    /\ discography = Unset
    /\ error = NoError
    /\ AuxIdle

\* -------------------------------------------------------- get_artist_page
\* What get_artist_page does with what it meets: the value it returns, or
\* the exception it leaves with.  get_page returns None for a failed fetch
\* and get_artist_page reads .data of it.
get_artist_page(met) ==
    CASE met = "no_url"       -> [raw_html |-> "None", error |-> NoError]
      [] met = "fetch_failed" -> [raw_html |-> "unset", error |-> "AttributeError"]
      [] met = "absent"       -> [raw_html |-> "None", error |-> NoError]
      [] met = "found"        -> [raw_html |-> "page", error |-> NoError]

\* raw_html = self.get_artist_page(artist)
GetArtistPageStep ==
    /\ pc = "start"
    /\ \E met \in {"no_url", "fetch_failed", "absent", "found"} :
         LET r == get_artist_page(met) IN
           /\ artist_page' = met
           /\ raw_html' = r.raw_html
           /\ error' = r.error
           /\ pc' = IF r.error = NoError THEN "check" ELSE "raised"
    /\ UNCHANGED <<artist, album, song, tor_controller, session, all_albums,
                   albums, idx, album_title, release_date, all_links,
                   song_links, results, finished, album_objects, rotations,
                   renewed, discography>>

\* Broken variant: the page is used whatever get_artist_page returned.
NotFoundNever(raw) == FALSE

\* not raw_html
NotFound(raw) == raw # "page"

\* if not raw_html: return None
CheckArtistPageStep ==
    /\ pc = "check"
    /\ IF NotFound(raw_html)
         THEN /\ discography' = None
              /\ pc' = "done"
         ELSE /\ discography' = discography
              /\ pc' = "get_albums"
    /\ UNCHANGED <<artist, album, song, tor_controller, session, artist_page,
                   raw_html, all_albums, albums, idx, album_title,
                   release_date, all_links, song_links, results, finished,
                   album_objects, rotations, renewed, error>>

\* albums = self.get_albums(raw_html)
GetAlbumsStep ==
    /\ pc = "get_albums"
    /\ \E ms \in SeqsUpTo(Markers, MaxAlbums) :
         /\ all_albums' = ms
         /\ albums' = ms
    /\ pc' = "filter_albums"
    /\ UNCHANGED <<artist, album, song, tor_controller, session, artist_page,
                   raw_html, idx, album_title, release_date, all_links,
                   song_links, results, finished, album_objects, rotations,
                   renewed, discography, error>>

\* The positions of ms whose get_album_infos raises.
Raising(ms) == {i \in DOMAIN ms : ms[i].raises # "none"}

\* First (smallest) element of a non-empty set of naturals.
First(S) == CHOOSE i \in S : \A j \in S : i <= j

\* [elmt for elmt in albums if album.lower() in get_album_infos(elmt)[0].lower()]
FilterByTitle(ms, filter) ==
    SelectIdx(ms, {i \in DOMAIN ms : MatchesFilter(filter, ms[i].title)}, 1)

\* if album: albums = [...]; get_album_infos is called outside any try here.
FilterAlbumsStep ==
    /\ pc = "filter_albums"
    /\ IF album = NoFilter
         THEN /\ albums' = albums
              /\ error' = error
              /\ pc' = "for"
         ELSE IF Raising(albums) # {}
           THEN /\ albums' = albums
                /\ error' = albums[First(Raising(albums))].raises
                /\ pc' = "raised"
           ELSE /\ albums' = FilterByTitle(albums, album)
                /\ error' = error
                /\ pc' = "for"
    /\ UNCHANGED <<artist, album, song, tor_controller, session, artist_page,
                   raw_html, all_albums, idx, album_title, release_date,
                   all_links, song_links, results, finished, album_objects,
                   rotations, renewed, discography>>

\* for elmt in albums: try: album_title, release_date = get_album_infos(elmt)
\* except ValueError: print(..., album_title); continue
NextAlbumStep ==
    /\ pc = "for"
    /\ idx <= Len(albums)
    /\ LET elmt == albums[idx] IN
         CASE elmt.raises = "none" ->
                /\ album_title' = elmt.title
                /\ release_date' = elmt.release_date
                /\ idx' = idx
                /\ error' = error
                /\ pc' = "get_songs"
           [] elmt.raises = "ValueError" /\ album_title = Unbound ->
                \* the handler formats album_title, which is not bound yet
                /\ error' = "UnboundLocalError"
                /\ pc' = "raised"
                /\ UNCHANGED <<album_title, release_date, idx>>
           [] elmt.raises = "ValueError" /\ album_title # Unbound ->
                /\ idx' = idx + 1
                /\ UNCHANGED <<album_title, release_date, error, pc>>
           [] OTHER ->
                /\ error' = elmt.raises
                /\ pc' = "raised"
                /\ UNCHANGED <<album_title, release_date, idx>>
    /\ UNCHANGED <<artist, album, song, tor_controller, session, artist_page,
                   raw_html, all_albums, albums, all_links, song_links,
                   results, finished, album_objects, rotations, renewed,
                   discography>>

\* [link for link in song_links if song.lower() in link.text.lower()]
FilterByText(ls, filter) ==
    SelectIdx(ls, {i \in DOMAIN ls : MatchesFilter(filter, ls[i].text)}, 1)

\* The number of song entries in the albums built so far.
RECURSIVE SongsIn(_)
SongsIn(albs) ==
    IF albs = <<>> THEN 0 ELSE Len(albs[1].songs) + SongsIn(Tail(albs))

\* song_links = self.get_songs(elmt); if song: song_links = [...]
\* The artist's albums hold at most MaxSongs song links between them.
GetSongsStep ==
    /\ pc = "get_songs"
    /\ \E ls \in SeqsUpTo(Links, MaxSongs - SongsIn(album_objects)) :
         /\ all_links' = ls
         /\ song_links' = IF song = NoFilter THEN ls ELSE FilterByText(ls, song)
    /\ pc' = "rotate"
    /\ UNCHANGED <<artist, album, song, tor_controller, session, artist_page,
                   raw_html, all_albums, albums, idx, album_title,
                   release_date, results, finished, album_objects, rotations,
                   renewed, discography, error>>

\* ------------------------------------------------------- circuit rotation
\* Broken variant: the circuit is renewed for every Tor controller.
ShouldRenewAnyController == tor_controller.present

\* if self.tor_controller and self.tor_controller.controlport:
ShouldRenew == HasControlChannel

\* What TorController.renew_tor_circuit can end with: True after NEWNYM was
\* sent, False when is_newnym_available() is false, or the exception of a
\* control connection that could not be opened or authenticated.
RenewOutcomes == {"granted", "declined", "SocketError"}

\* Broken variant: a declined rotation abandons the album.
GoesOnAfterGrantOnly(outcome) == outcome = "granted"

\* get_lyrics discards what renew_tor_circuit returns; only an exception
\* keeps it from going on.
GoesOnAfter(outcome) == outcome \in {"granted", "declined"}

\* self.tor_controller.renew_tor_circuit()
\* self.session = self.tor_controller.get_tor_session()
\* pool = Pool(25)
RotateStep ==
    /\ pc = "rotate"
    /\ IF ShouldRenew
         THEN \E outcome \in RenewOutcomes :
                /\ rotations' = rotations + 1
                /\ renewed' = outcome
                /\ IF GoesOnAfter(outcome)
                     THEN /\ session' = session + 1
                          /\ results' = <<>>
                          /\ finished' = <<>>
                          /\ error' = error
                          /\ pc' = IF song_links = <<>> THEN "join" ELSE "spawn"
                     ELSE /\ error' = outcome
                          /\ pc' = "raised"
                          /\ UNCHANGED <<session, results, finished>>
         ELSE /\ results' = <<>>
              /\ finished' = <<>>
              /\ pc' = IF song_links = <<>> THEN "join" ELSE "spawn"
              /\ UNCHANGED <<rotations, renewed, session, error>>
    /\ UNCHANGED <<artist, album, song, tor_controller, artist_page, raw_html,
                   all_albums, albums, idx, album_title, release_date,
                   all_links, song_links, album_objects, discography>>

\* ------------------------------------------------------------ worker pool
\* The greenlets of rs that have not finished.
Alive(rs) == {i \in DOMAIN rs : rs[i].status # "done"}

\* Broken variant: the pool has no limit.
PoolNeverFull(rs) == FALSE

\* Pool.spawn blocks while the pool holds PoolSize greenlets.
PoolFull(rs) == Cardinality(Alive(rs)) >= PoolSize

\* results = [pool.spawn(self.create_song, *(link, artist, album_title))
\*            for link in song_links]: one link at a time
SpawnStep ==
    /\ pc = "spawn"
    /\ Len(results) < Len(song_links)
    /\ ~PoolFull(results)
    /\ results' = Append(results,
                         [link |-> song_links[Len(results) + 1],
                          artist |-> artist,
                          album_title |-> album_title,
                          status |-> "running",
                          value |-> None,
                          exception |-> NoError])
    /\ pc' = IF Len(results') = Len(song_links) THEN "join" ELSE "spawn"
    /\ UNCHANGED <<artist, album, song, tor_controller, session, artist_page,
                   raw_html, all_albums, albums, idx, album_title,
                   release_date, all_links, song_links, finished,
                   album_objects, rotations, renewed, discography, error>>

\* Greenlets run only while the orchestrator is suspended: in pool.join(),
\* or in a pool.spawn() that waits for a free slot.
WorkersMayRun == pc = "join" \/ (pc = "spawn" /\ PoolFull(results))

\* The exception create_song leaves with: get_lyrics_page reads .data of
\* the None that get_page returns for a failed fetch, extract_lyrics reads
\* .strings of the None that find returns for a missing lyrics box.
create_song_raises(outcome) ==
    IF outcome \in {"fetch_failed", "extract_error"} THEN "AttributeError"
    ELSE NoError

\* create_song: a Song for a page that was fetched, passed the presence
\* check and gave its lyrics; None for an absent page.
create_song(link, artist_, album_title_, outcome) ==
    IF outcome = "song"
      THEN Song(link.text, album_title_, artist_, "lyrics", NoText)
      ELSE None

\* Broken variant: a greenlet that dies of an exception takes the greenlets
\* that are still running with it.
FinishKillingPool(rs, i, outcome) ==
    [j \in DOMAIN rs |->
       IF j = i
         THEN [rs[j] EXCEPT !.status = "done",
                            !.exception = create_song_raises(outcome),
                            !.value = create_song(rs[j].link, rs[j].artist,
                                                  rs[j].album_title, outcome)]
         ELSE IF create_song_raises(outcome) # NoError
           THEN [rs[j] EXCEPT !.status = "done"]
           ELSE rs[j]]

\* The greenlet at position i has run create_song to its end: its value is
\* what create_song returned, and stays None when create_song raised.
Finish(rs, i, outcome) ==
    LET g == rs[i] IN
      [rs EXCEPT ![i] = [g EXCEPT !.status = "done",
                                  !.exception = create_song_raises(outcome),
                                  !.value = create_song(g.link, g.artist,
                                                        g.album_title, outcome)]]

\* A greenlet runs create_song for its link, from the request of the page
\* to the Song, the None or the exception it ends with.
WorkerStep(i) ==
    /\ WorkersMayRun
    /\ i \in DOMAIN results
    /\ results[i].status = "running"
    /\ \E outcome \in WorkerOutcomes :
         results' = Finish(results, i, outcome)
    /\ finished' = Append(finished, i)
    /\ UNCHANGED <<pc, artist, album, song, tor_controller, session,
                   artist_page, raw_html, all_albums, albums, idx,
                   album_title, release_date, all_links, song_links,
                   album_objects, rotations, renewed, discography, error>>

\* Broken variant: join returns without waiting for the greenlets.
JoinReturnsAtOnce(rs) == TRUE

\* pool.join() returns when no greenlet of the pool is alive.
JoinReturns(rs) == Alive(rs) = {}

\* Broken variant: the songs that could not be resolved are dropped.
GatherResolved(rs) ==
    SelectIdx([i \in DOMAIN rs |-> rs[i].value],
              {i \in DOMAIN rs : rs[i].value # None}, 1)

\* Broken variant: the values are taken in the order the greenlets finished.
GatherAsFinished(rs) ==
    [k \in DOMAIN rs |-> IF k <= Len(finished) THEN rs[finished[k]].value ELSE None]

\* songs = [song.value for song in results]
Gather(rs) == [i \in DOMAIN rs |-> rs[i].value]

\* Broken variant: an album that gathered no song is left out.
AppendedUnlessEmpty(albs, album_obj) ==
    IF album_obj.songs = <<>> THEN albs ELSE Append(albs, album_obj)

\* album_objects.append(album_obj)
Appended(albs, album_obj) == Append(albs, album_obj)

\* pool.join(); songs = [...]; album_obj = Album(...); album_objects.append
\* The list results is read here for the last time: what stays of it is
\* the greenlets that are still alive, none once join has returned.
JoinStep ==
    /\ pc = "join"
    /\ JoinReturns(results)
    /\ album_objects' = Appended(album_objects,
                                 Album(album_title, artist, Gather(results),
                                       release_date))
    /\ results' = SelectIdx(results, Alive(results), 1)
    /\ idx' = idx + 1
    /\ pc' = "for"
    /\ UNCHANGED <<artist, album, song, tor_controller, session, artist_page,
                   raw_html, all_albums, albums, album_title, release_date,
                   all_links, song_links, finished, rotations, renewed,
                   discography, error>>

\* Broken variant: an artist without albums is reported as not found.
ReturnValueNoneIfEmpty(artist_, albs) ==
    IF albs = <<>> THEN None ELSE Discography(artist_, albs)

\* discography = Discography(artist, album_objects)
ReturnValue(artist_, albs) == Discography(artist_, albs)

\* discography = Discography(artist, album_objects); return discography
ReturnStep ==
    /\ pc = "for"
    /\ idx > Len(albums)
    /\ discography' = ReturnValue(artist, album_objects)
    /\ pc' = "done"
    /\ UNCHANGED <<artist, album, song, tor_controller, session, artist_page,
                   raw_html, all_albums, albums, idx, album_title,
                   release_date, all_links, song_links, results, finished,
                   album_objects, rotations, renewed, error>>

\* ------------------------------------------------------------- get_lyrics
\* One call of get_lyrics: each step of the orchestrator, and nothing else
\* of the library is in use meanwhile.
GetArtistPage == GetArtistPageStep /\ UNCHANGED aux

CheckArtistPage == CheckArtistPageStep /\ UNCHANGED aux

GetAlbums == GetAlbumsStep /\ UNCHANGED aux

FilterAlbums == FilterAlbumsStep /\ UNCHANGED aux

NextAlbum == NextAlbumStep /\ UNCHANGED aux

GetSongs == GetSongsStep /\ UNCHANGED aux

Rotate == RotateStep /\ UNCHANGED aux

Spawn == SpawnStep /\ UNCHANGED aux

Worker(i) == WorkerStep(i) /\ UNCHANGED aux

Join == JoinStep /\ UNCHANGED aux

Return == ReturnStep /\ UNCHANGED aux

\* ---------------------------------------------------------- specification
Next ==
    \/ GetArtistPage
    \/ CheckArtistPage
    \/ GetAlbums
    \/ FilterAlbums
    \/ NextAlbum
    \/ GetSongs
    \/ Rotate
    \/ Spawn
    \/ \E i \in 1..MaxSongs : Worker(i)
    \/ Join
    \/ Return

Spec == Init /\ [][Next]_vars

\* The same call under the scheduling of the hub: the orchestrator goes on
\* whenever it can, and a greenlet that was started runs to its end, its
\* page fetch completing or failing.
FairSpec == Spec /\ WF_vars(Next)

\* ------------------------------------------------- an album of many songs
\* The downloads of one album that has more song links than the pool has
\* places.
MaxLinks == 27

\* The song links of an album of n songs.
ManyLinks(n) ==
    [k \in 1..n |->
       [text |-> IF k % 2 = 1 THEN <<"I", "n", "t", "r", "o">>
                 ELSE <<"O", "u", "t", "r", "o">>]]

\* get_lyrics is at pool = Pool(25) for the only album of the artist:
\* the page, the album and its song links were read, no filter was given,
\* and with a control channel the circuit was renewed and the session
\* rebuilt for the album.
PoolInit ==
    /\ artist \in Artists
    /\ album = NoFilter
    /\ song = NoFilter
    /\ tor_controller \in TorControllers
    /\ session = (IF HasControlChannel THEN 1 ELSE 0)
    /\ rotations = (IF HasControlChannel THEN 1 ELSE 0)
    /\ renewed \in (IF HasControlChannel THEN {"granted", "declined"}
                    ELSE {"none"})
    /\ artist_page = "found"
    /\ raw_html = "page"
    /\ all_albums = <<[title |-> <<"D", "e", "m", "o">>,
                       release_date |-> "Unknown", raises |-> "none"]>>
    /\ albums = all_albums
    /\ idx = 1
    /\ album_title = <<"D", "e", "m", "o">>
    /\ release_date = "Unknown"
    /\ \E n \in 0..MaxLinks : all_links = ManyLinks(n)
    /\ song_links = all_links
    /\ results = <<>>
    /\ finished = <<>>
    /\ album_objects = <<>>
    /\ discography = Unset
    /\ error = NoError
    /\ pc = (IF song_links = <<>> THEN "join" ELSE "spawn")
    /\ AuxIdle

\* A greenlet of the pool ends.  How many greenlets are alive afterwards
\* depends neither on which of them ended nor on what it ended with, so
\* one case stands for all: the oldest greenlet ends, with a Song.
PoolWorker(i) ==
    /\ \A j \in Alive(results) : i <= j
    /\ WorkerStep(i)
    /\ results'[i].value # None
    /\ UNCHANGED aux

PoolNext ==
    \/ Spawn
    \/ \E i \in 1..MaxLinks : PoolWorker(i)
    \/ Join
    \/ Return

\* The hub runs the orchestrator whenever it can go on, and every greenlet
\* that was started while the orchestrator waits; a greenlet ends when its
\* page fetch completes or fails.
PoolSpec ==
    /\ PoolInit
    /\ [][PoolNext]_vars
    /\ WF_vars(Spawn)
    /\ WF_vars(\E i \in 1..MaxLinks : PoolWorker(i))
    /\ WF_vars(Join)
    /\ WF_vars(Return)

\* ------------------------------------------------- the command line
\* lyricsmaster.CURRENT_PROVIDERS: the provider class of each name.
CURRENT_PROVIDERS ==
    [k \in {<<"l", "y", "r", "i", "c", "w", "i", "k", "i">>,
            <<"a", "z", "l", "y", "r", "i", "c", "s">>,
            <<"g", "e", "n", "i", "u", "s">>,
            <<"m", "u", "s", "i", "x", "m", "a", "t", "c", "h">>,
            <<"l", "y", "r", "i", "c", "s", "0", "0", "7">>} |->
       CASE k[1] = "a" -> "AzLyrics"
         [] k[1] = "g" -> "Genius"
         [] k[1] = "m" -> "MusixMatch"
         [] k = <<"l", "y", "r", "i", "c", "w", "i", "k", "i">> -> "LyricWiki"
         [] OTHER -> "Lyrics007"]

\* The values of --provider that are tried: the default, a name in lower
\* case, a name that is no provider's.
ProviderNames ==
    {<<"L", "y", "r", "i", "c", "W", "i", "k", "i">>,
     <<"g", "e", "n", "i", "u", "s">>,
     <<"W", "i", "k", "i">>}

\* main has been called with its arguments: the provider name, the artist
\* and the filters, and the Tor options, which decide the controller the
\* provider is built with.
MainInit ==
    /\ pc = "main"
    /\ artist \in Artists
    /\ album \in AlbumFilters
    /\ song \in SongFilters
    /\ tor_controller \in TorControllers
    /\ session = 0
    /\ artist_page = "unset"
    /\ raw_html = "unset"
    /\ all_albums = <<>>
    /\ albums = <<>>
    /\ idx = 1
    /\ album_title = Unbound
    /\ release_date = "unset"
    /\ all_links = <<>>
    /\ song_links = <<>>
    /\ results = <<>>
    /\ finished = <<>>
    /\ album_objects = <<>>
    /\ rotations = 0
    /\ renewed = "none"
    /\ discography = Unset
    /\ error = NoError
    /\ call \in {[fn |-> "main", provider |-> n] : n \in ProviderNames}
    /\ ret = Pending
    /\ ContainerIdle
    /\ ReplayIdle

\* provider = CURRENT_PROVIDERS[provider.lower()], with return on KeyError;
\* provider_instance = provider(...)
MainLookup ==
    /\ pc = "main"
    /\ IF lower(call.provider) \in DOMAIN CURRENT_PROVIDERS
         THEN /\ ret' = [provider_instance |->
                           CURRENT_PROVIDERS[lower(call.provider)],
                         saved |-> FALSE]
              /\ pc' = "start"
         ELSE /\ ret' = [provider_instance |-> "unbound", saved |-> FALSE]
              /\ pc' = "exited"
    /\ UNCHANGED <<artist, album, song, tor_controller, session, artist_page,
                   raw_html, all_albums, albums, idx, album_title,
                   release_date, all_links, song_links, results, finished,
                   album_objects, rotations, renewed, discography, error,
                   call, iterating, replaying>>

\* results.save(folder=folder), on whatever get_lyrics returned: None has
\* no attribute save.
MainSave ==
    /\ pc = "done"
    /\ call.fn = "main"
    /\ IF discography = None
         THEN /\ error' = "AttributeError"
              /\ ret' = ret
         ELSE /\ error' = error
              /\ ret' = [ret EXCEPT !.saved = TRUE]
    /\ pc' = "exited"
    /\ UNCHANGED <<artist, album, song, tor_controller, session, artist_page,
                   raw_html, all_albums, albums, idx, album_title,
                   release_date, all_links, song_links, results, finished,
                   album_objects, rotations, renewed, discography,
                   call, iterating, replaying>>

\* main from its call to its end: the lookup, get_lyrics, the save.
MainNext ==
    \/ MainLookup
    \/ Next
    \/ MainSave

MainSpec == MainInit /\ [][MainNext]_vars

\* ------------------------------------------------------- a second call
\* get_lyrics called twice on one provider with the same arguments, while
\* the source does not change: what it showed to the first call (the artist
\* page, its album markers, the links of each album, the answer to each
\* song URL) it shows to the second.  The scheduling of the greenlets and
\* what renew_tor_circuit ends with are free in both calls.
GetArtistPageOfSource ==
    /\ GetArtistPageStep
    /\ source.met \in {"unset", artist_page'}
    /\ source' = [source EXCEPT !.met = artist_page']
    /\ UNCHANGED <<calling, iterating, calls, first>>

GetAlbumsOfSource ==
    /\ GetAlbumsStep
    /\ source.markers \in {Unset, [kind |-> "markers", list |-> all_albums']}
    /\ source' = [source EXCEPT
                    !.markers = [kind |-> "markers", list |-> all_albums']]
    /\ UNCHANGED <<calling, iterating, calls, first>>

\* The album asked for is the next one after those already built.
GetSongsOfSource ==
    /\ GetSongsStep
    /\ LET k == Len(album_objects) + 1 IN
         IF k \in DOMAIN source.links
           THEN /\ all_links' = source.links[k]
                /\ source' = source
           ELSE source' = [source EXCEPT !.links = Append(@, all_links')]
    /\ UNCHANGED <<calling, iterating, calls, first>>

\* What a greenlet that has finished tells of the page behind its link:
\* it gave a song, it gave none, or create_song could not read it.
Told(g) ==
    IF g.exception # NoError THEN "unreadable"
    ELSE IF g.value = None THEN "absent"
    ELSE "song"

\* A song URL is answered as it was answered before.
WorkerOfSource(i) ==
    /\ WorkerStep(i)
    /\ source.pages[results[i].link.text] \in {"unknown", Told(results'[i])}
    /\ source' = [source EXCEPT
                    !.pages[results[i].link.text] = Told(results'[i])]
    /\ UNCHANGED <<calling, iterating, calls, first>>

\* The first call has returned; get_lyrics is called again with the same
\* arguments.  The provider keeps its session; the locals are new.
CallAgain ==
    /\ pc = "done"
    /\ calls = 1
    /\ calls' = 2
    /\ first' = discography
    /\ pc' = "start"
    /\ artist_page' = "unset"
    /\ raw_html' = "unset"
    /\ all_albums' = <<>>
    /\ albums' = <<>>
    /\ idx' = 1
    /\ album_title' = Unbound
    /\ release_date' = "unset"
    /\ all_links' = <<>>
    /\ song_links' = <<>>
    /\ results' = <<>>
    /\ finished' = <<>>
    /\ album_objects' = <<>>
    /\ rotations' = 0
    /\ renewed' = "none"
    /\ discography' = Unset
    /\ error' = NoError
    /\ UNCHANGED <<artist, album, song, tor_controller, session, calling,
                   iterating, source>>

TwiceNext ==
    \/ GetArtistPageOfSource
    \/ CheckArtistPage
    \/ GetAlbumsOfSource
    \/ FilterAlbums
    \/ NextAlbum
    \/ GetSongsOfSource
    \/ Rotate
    \/ Spawn
    \/ \E i \in 1..MaxSongs : WorkerOfSource(i)
    \/ Join
    \/ Return
    \/ CallAgain

TwiceSpec == Init /\ [][TwiceNext]_vars

\* ------------------------------------------------------- single methods
\* The methods of a provider called on their own, as the tests call them:
\* get_page, create_song and get_album_infos of each adapter.
Adapters == {"LyricWiki", "AzLyrics", "Genius", "Lyrics007", "MusixMatch"}

\* What session.request('GET', url) ends with: a response, or an exception
\* of urllib3 (retries exhausted, certificate refused, no host in the URL).
Answers == {"response", "MaxRetryError", "SSLError", "LocationValueError"}

Urls == {"/wiki/Reggie_Watts", "/wiki/Reggie_Watts:Fuck_Shit_Stack"}

HTTPResponse(url) == [kind |-> "HTTPResponse", url |-> url]

\* Broken variant: the exception of the transport is not caught.
get_page_uncaught(self_session, url, answer) ==
    [req |-> IF answer = "response" THEN HTTPResponse(url) ELSE None,
     raises |-> IF answer = "response" THEN NoError ELSE answer,
     session |-> self_session]

\* get_page: req = self.session.request('GET', url), None when that raised
\* an Exception.  self.session is read and not assigned.
get_page(self_session, url, answer) ==
    [req |-> IF answer = "response" THEN HTTPResponse(url) ELSE None,
     raises |-> NoError,
     session |-> self_session]

\* The page a song URL holds: one with the lyrics, one that fails the
\* presence predicate _has_lyrics, one that passes it without the element
\* extract_lyrics looks for.
Pages == {"lyrics", "no_lyrics", "no_box"}

\* A song link as create_song reads it: its text and, on LyricWiki, whether
\* its title attribute says '(page does not exist'.
SongLinks == {[text |-> t, missing |-> m] : t \in LinkTexts, m \in BOOLEAN}

\* if '(page does not exist' in song_title: return None   (LyricWiki only)
MarkedMissing(adapter, link) == adapter = "LyricWiki" /\ link.missing

\* What create_song meets on its way, as the workers of get_lyrics know it.
\* get_lyrics_page reads .data of what get_page returned for the song URL,
\* which the link text stands for here.
OutcomeOf(adapter, link, answer, page) ==
    IF MarkedMissing(adapter, link) THEN "absent"
    ELSE IF get_page(0, link.text, answer).req = None THEN "fetch_failed"
    ELSE IF page = "no_lyrics" THEN "absent"
    ELSE IF page = "no_box" THEN "extract_error"
    ELSE "song"

\* The number of pages create_song asks for.
Fetches(adapter, link) == IF MarkedMissing(adapter, link) THEN 0 ELSE 1

\* ---- text
\* tag.text is a sequence of characters.
Demo == <<"D", "e", "m", "o">>
Live == <<"L", "i", "v", "e">>
Year == <<"1", "9", "9", "4">>
Unknown == <<"U", "n", "k", "n", "o", "w", "n">>
Released == <<"R", "e", "l", "e", "a", "s", "e", "d">>

\* str.find(sub): the 0-based place of the first sub in text, -1 if none.
find(text, sub) ==
    LET at == {i \in 0..(Len(text) - Len(sub)) :
                 SubSeq(text, i + 1, i + Len(sub)) = sub}
    IN IF at = {} THEN -1 ELSE First(at)

\* text[:i]
UpTo(text, i) ==
    IF i >= Len(text) THEN text
    ELSE IF i >= 0 THEN SubSeq(text, 1, i)
    ELSE SubSeq(text, 1, Len(text) + i)

\* text.startswith(prefix)
startswith(text, prefix) == UpTo(text, Len(prefix)) = prefix

\* The end of the group that opens at p: the place of the first bracket
\* after p when it is a closing one and the group is not empty, 0 otherwise.
GroupEnd(text, open, close, p) ==
    LET after == {q \in (p + 1)..Len(text) : text[q] \in {open, close}}
    IN IF after = {} THEN 0
       ELSE IF text[First(after)] = close /\ (First(after) > p + 1 \/ open = close)
         THEN First(after) ELSE 0

\* re.findall(r'\(([^()]+)\)', text) and re.findall(r'"([^"]*)"', text),
\* cut after the first match: the groups between open and close.
findall(text, open, close) ==
    LET starts == {p \in DOMAIN text :
                     text[p] = open /\ GroupEnd(text, open, close, p) # 0}
    IN IF starts = {} THEN <<>>
       ELSE <<SubSeq(text, First(starts) + 1,
                     GroupEnd(text, open, close, First(starts)) - 1)>>

\* text.split(sep), for a text that holds sep at most once.
split(text, sep) ==
    IF find(text, sep) = -1 THEN <<text>>
    ELSE <<UpTo(text, find(text, sep)),
           SubSeq(text, find(text, sep) + Len(sep) + 1, Len(text))>>

\* ---- get_album_infos
Infos(title, release_date_) ==
    [value |-> [title |-> title, release_date |-> release_date_],
     raises |-> NoError]
Raises(e) == [value |-> Unset, raises |-> e]

\* LyricWiki: the headline "Title (year)".
LyricWiki_get_album_infos(tag) ==
    IF find(tag.text, <<" ", "(">>) = -1
      THEN Infos(UpTo(tag.text, -1), Unknown)
      ELSE IF findall(tag.text, "(", ")") = <<>>
        THEN Raises("IndexError")
        ELSE Infos(UpTo(tag.text, find(tag.text, <<" ", "(">>)),
                   findall(tag.text, "(", ")")[1])

\* AzLyrics: the title is the first quoted text of the div of class album
\* inside the tag (find gives None when there is none), the release date
\* the first bracketed text of the whole tag; IndexError is not ValueError.
AzLyrics_get_album_infos(tag) ==
    IF tag.album = <<>> THEN Raises("AttributeError")
    ELSE IF findall(tag.album[1], "\"", "\"") = <<>> THEN Raises("IndexError")
    ELSE IF findall(tag.text, "(", ")") = <<>> THEN Raises("IndexError")
    ELSE Infos(findall(tag.album[1], "\"", "\"")[1],
               findall(tag.text, "(", ")")[1])

\* Genius: the link of the album, and the metadata units of its page.
Genius_get_album_infos(tag) ==
    IF get_page(0, tag.href, tag.answer).req = None
      THEN Raises("AttributeError")
      ELSE LET metadata == SelectIdx(tag.units,
                             {i \in DOMAIN tag.units :
                                startswith(tag.units[i], Released)}, 1)
           IN Infos(tag.text,
                    IF metadata = <<>> THEN Unknown ELSE metadata[1])

\* Lyrics007: release_date, album_title = tag.text.split(': ')
Lyrics007_get_album_infos(tag) ==
    IF Len(split(tag.text, <<":", " ">>)) # 2 THEN Raises("ValueError")
    ELSE Infos(split(tag.text, <<":", " ">>)[2],
               split(tag.text, <<":", " ">>)[1])

\* MusixMatch: the h2 and the h3 of the card; find gives None for no h3.
MusixMatch_get_album_infos(tag) ==
    IF tag.h2 = <<>> THEN Raises("AttributeError")
    ELSE Infos(tag.h2[1], IF tag.h3 = <<>> THEN Unknown ELSE tag.h3[1])

get_album_infos(adapter, tag) ==
    CASE adapter = "LyricWiki"  -> LyricWiki_get_album_infos(tag)
      [] adapter = "AzLyrics"   -> AzLyrics_get_album_infos(tag)
      [] adapter = "Genius"     -> Genius_get_album_infos(tag)
      [] adapter = "Lyrics007"  -> Lyrics007_get_album_infos(tag)
      [] adapter = "MusixMatch" -> MusixMatch_get_album_infos(tag)

\* The album markers of each adapter: with a release date, and without.
Headlines ==
    {t \o d : t \in {Demo, Live},
              d \in {<<>>, <<" ", "(">> \o Year \o <<")">>, <<" ", "(">>,
                     <<" ", "(">> \o Year}}
Tags(adapter) ==
    CASE adapter = "LyricWiki" -> {[text |-> h] : h \in Headlines}
      [] adapter = "AzLyrics" ->
           {[album |-> <<<<"\"">> \o t \o <<"\"">> \o d>>,
             text |-> <<"\"">> \o t \o <<"\"">> \o d \o <<" ">> \o Live] :
              t \in {Demo, Live},
              d \in {<<>>, <<" ", "(">> \o Year \o <<")">>}}
           \cup {[album |-> <<>>, text |-> Demo]}
      [] adapter = "Genius" ->
           {[text |-> t, href |-> "/albums/Reggie-watts", answer |-> a,
             units |-> u] :
              t \in {Demo, Live}, a \in {"response", "MaxRetryError"},
              u \in {<<>>, <<Released \o <<" ">> \o Year>>,
                     <<<<"L", "a", "b", "e", "l">>>>}}
      [] adapter = "Lyrics007" ->
           {[text |-> d \o t] :
              t \in {Demo, Live}, d \in {<<>>, Year \o <<":", " ">>}}
      [] adapter = "MusixMatch" ->
           {[h2 |-> <<t>>, h3 |-> d] :
              t \in {Demo, Live}, d \in {<<>>, <<Year>>}}

\* ---- renew_tor_circuit
\* The controlport a TorController is built with: None (the default), a
\* port number, the path of a control socket.
ControlPorts ==
    {[type |-> "NoneType"],
     [type |-> "int", port |-> ControlPort],
     [type |-> "str", path |-> "/var/run/tor/control"]}

\* What the control channel answers: it cannot be opened, or it is opened
\* and is_newnym_available() is true or false.
ControlAnswers == {"SocketError", "newnym_available", "newnym_unavailable"}

\* A Python bool, and what a function that ends without a return
\* statement gives.
Bool(b) == [kind |-> "bool", value |-> b]

\* renew_tor_circuit: the value it returns or the exception it leaves
\* with, and the signals it sent to the controller.  A controlport that
\* is neither an int nor a string takes neither branch.
renew_tor_circuit(controlport, answer) ==
    IF controlport.type \in {"int", "str"}
      THEN IF answer = "SocketError"
             THEN [value |-> Unset, raises |-> "SocketError", signals |-> <<>>]
           ELSE IF answer = "newnym_available"
             THEN [value |-> Bool(TRUE), raises |-> NoError,
                   signals |-> <<"NEWNYM">>]
             ELSE [value |-> Bool(FALSE), raises |-> NoError, signals |-> <<>>]
      ELSE [value |-> None, raises |-> NoError, signals |-> <<>>]

\* ---- the calls
Calls ==
    {[fn |-> "get_page", url |-> u, answer |-> a] :
       u \in Urls, a \in Answers}
    \cup {[fn |-> "create_song", adapter |-> ad, link |-> l, artist |-> ar,
           album_title |-> t, answer |-> a, page |-> p] :
            ad \in Adapters, l \in SongLinks, ar \in Artists, t \in {Demo},
            a \in {"response", "MaxRetryError"}, p \in Pages}
    \cup UNION {{[fn |-> "get_album_infos", adapter |-> ad, tag |-> t] :
                   t \in Tags(ad)} : ad \in Adapters}
    \cup {[fn |-> "renew_tor_circuit", controlport |-> c, answer |-> a] :
            c \in ControlPorts, a \in ControlAnswers}

\* The orchestrator is not running.
OrchestratorIdle ==
    /\ pc = "idle"
    /\ artist = "" /\ album = NoFilter /\ song = NoFilter
    /\ artist_page = "unset" /\ raw_html = "unset"
    /\ all_albums = <<>> /\ albums = <<>> /\ idx = 1
    /\ album_title = Unbound /\ release_date = "unset"
    /\ all_links = <<>> /\ song_links = <<>>
    /\ results = <<>> /\ finished = <<>> /\ album_objects = <<>>
    /\ rotations = 0 /\ renewed = "none"
    /\ discography = Unset /\ error = NoError

\* The provider exists, with its first session or a later one, and one
\* method is about to be called with its arguments.
CallInit ==
    /\ OrchestratorIdle
    /\ ContainerIdle
    /\ ReplayIdle
    /\ tor_controller \in TorControllers
    /\ session \in {0, 1}
    /\ call \in Calls
    /\ ret = Pending

NotSession ==
    <<pc, artist, album, song, tor_controller, artist_page, raw_html,
      all_albums, albums, idx, album_title, release_date, all_links,
      song_links, results, finished, album_objects, rotations, renewed,
      discography, error>>

\* provider.get_page(url)
GetPage ==
    /\ call.fn = "get_page"
    /\ ret = Pending
    /\ LET r == get_page(session, call.url, call.answer) IN
         /\ ret' = [value |-> r.req, raises |-> r.raises, before |-> session]
         /\ session' = r.session
    /\ UNCHANGED <<NotSession, call, iterating, replaying>>

\* provider.create_song(link, artist, album_title)
CreateSong ==
    /\ call.fn = "create_song"
    /\ ret = Pending
    /\ LET outcome == OutcomeOf(call.adapter, call.link, call.answer, call.page) IN
         ret' = [value |-> IF create_song_raises(outcome) # NoError THEN Unset
                           ELSE create_song(call.link, call.artist,
                                            call.album_title, outcome),
                 raises |-> create_song_raises(outcome),
                 fetches |-> Fetches(call.adapter, call.link)]
    /\ UNCHANGED <<orchestrator, call, iterating, replaying>>

\* provider.get_album_infos(tag)
GetAlbumInfos ==
    /\ call.fn = "get_album_infos"
    /\ ret = Pending
    /\ ret' = get_album_infos(call.adapter, call.tag)
    /\ UNCHANGED <<orchestrator, call, iterating, replaying>>

\* TorController(controlport=...).renew_tor_circuit()
RenewTorCircuit ==
    /\ call.fn = "renew_tor_circuit"
    /\ ret = Pending
    /\ ret' = renew_tor_circuit(call.controlport, call.answer)
    /\ UNCHANGED <<orchestrator, call, iterating, replaying>>

CallNext ==
    \/ GetPage
    \/ CreateSong
    \/ GetAlbumInfos
    \/ RenewTorCircuit

CallSpec == CallInit /\ [][CallNext]_vars

\* ------------------------------------------------------------- containers
\* Album and Discography as containers: __len__, __iter__, __next__ and
\* __reversed__ are the same code over self.songs and self.albums.
MaxItems == 3

\* self.songs of an Album, self.albums of a Discography
Items(o) == IF o.kind = "Album" THEN o.songs ELSE o.albums

\* __len__: len(self.songs)
len(o) == Len(Items(o))

\* The entries a container can hold: songs and the None of a link that was
\* not resolved in an Album, albums in a Discography.
Entries(kind) ==
    IF kind = "Album"
      THEN {Song(t, Demo, "Reggie Watts", "lyrics", NoText) : t \in LinkTexts}
           \cup {None}
      ELSE {Album(t, "Reggie Watts", <<>>, "Unknown") : t \in {Demo, Live}}

Containers ==
    {Album(Demo, "Reggie Watts", ss, "Unknown") :
       ss \in SeqsUpTo(Entries("Album"), MaxItems)}
    \cup {Discography("Reggie Watts", as) :
            as \in SeqsUpTo(Entries("Discography"), MaxItems)}

\* Broken variant: the cursor stays past the end when the entries run out.
next_without_reset(o) ==
    IF o.idx + 1 <= len(o)
      THEN [obj |-> [o EXCEPT !.idx = o.idx + 1],
            value |-> <<Items(o)[o.idx + 1]>>]
      ELSE [obj |-> [o EXCEPT !.idx = o.idx + 1], value |-> <<>>]

\* __next__: self.__idx__ += 1; return self.songs[self.__idx__ - 1], and on
\* IndexError self.__idx__ = 0 and StopIteration (no value here).
next(o) ==
    IF o.idx + 1 <= len(o)
      THEN [obj |-> [o EXCEPT !.idx = o.idx + 1],
            value |-> <<Items(o)[o.idx + 1]>>]
      ELSE [obj |-> [o EXCEPT !.idx = 0], value |-> <<>>]

\* Broken variant: the entries are reversed from the cursor on.
reversed_from_cursor(o) ==
    [i \in 1..(len(o) - o.idx) |-> Items(o)[len(o) + 1 - i]]

\* __reversed__: reversed(self.songs), read to its end
reversed(o) == [i \in 1..len(o) |-> Items(o)[len(o) + 1 - i]]

\* A container has been built, its cursor at 0.
IterInit ==
    /\ OrchestratorIdle
    /\ tor_controller = [present |-> FALSE, controlport |-> 0]
    /\ session = 0
    /\ CallIdle
    /\ ReplayIdle
    /\ obj \in Containers
    /\ loop = "none"
    /\ yielded = <<>>
    /\ from_idx = 0
    /\ after_complete = FALSE
    /\ rev = Pending
    /\ pair = <<>>

\* for entry in obj: iter(obj) is obj itself
Iter ==
    /\ loop # "running"
    /\ loop' = "running"
    /\ yielded' = <<>>
    /\ from_idx' = obj.idx
    /\ after_complete' = (loop = "exhausted")
    /\ UNCHANGED <<orchestrator, calling, replaying, obj, rev, pair>>

\* The loop asks for its next entry: it gets one, or it ends.
LoopNext ==
    /\ loop = "running"
    /\ LET r == next(obj) IN
         /\ obj' = r.obj
         /\ yielded' = yielded \o r.value
         /\ loop' = IF r.value = <<>> THEN "exhausted" ELSE "running"
    /\ UNCHANGED <<orchestrator, calling, replaying, from_idx, after_complete,
                   rev, pair>>

\* break
Break ==
    /\ loop = "running"
    /\ loop' = "left"
    /\ UNCHANGED <<orchestrator, calling, replaying, obj, yielded, from_idx,
                   after_complete, rev, pair>>

\* list(reversed(obj))
Reversed ==
    /\ rev = Pending
    /\ rev' = [value |-> reversed(obj), idx |-> obj.idx]
    /\ UNCHANGED <<orchestrator, calling, replaying, obj, loop, yielded, from_idx,
                   after_complete, pair>>

IterNext ==
    \/ Iter
    \/ LoopNext
    \/ Break
    \/ Reversed

IterSpec == IterInit /\ [][IterNext]_vars

\* ---- two loops at once
\* Two for loops over one container whose steps interleave (a loop nested
\* in another, two generators, two greenlets): iter(obj) is obj for both,
\* and each step of either is one call of __next__ on it.
PairInit ==
    /\ OrchestratorIdle
    /\ tor_controller = [present |-> FALSE, controlport |-> 0]
    /\ session = 0
    /\ CallIdle
    /\ ReplayIdle
    /\ obj \in Containers
    /\ loop = "none"
    /\ yielded = <<>>
    /\ from_idx = 0
    /\ after_complete = FALSE
    /\ rev = Pending
    /\ pair = [k \in 1..2 |-> [loop |-> "none", yielded |-> <<>>]]

\* for entry in obj, in loop k
PairIter(k) ==
    /\ pair[k].loop = "none"
    /\ pair' = [pair EXCEPT ![k].loop = "running"]
    /\ UNCHANGED <<orchestrator, calling, replaying, obj, loop, yielded,
                   from_idx, after_complete, rev>>

\* Loop k asks for its next entry: it gets one, or it ends.
PairLoopNext(k) ==
    /\ pair[k].loop = "running"
    /\ LET r == next(obj) IN
         /\ obj' = r.obj
         /\ pair' = [pair EXCEPT
                       ![k].yielded = pair[k].yielded \o r.value,
                       ![k].loop = IF r.value = <<>> THEN "exhausted"
                                   ELSE "running"]
    /\ UNCHANGED <<orchestrator, calling, replaying, loop, yielded, from_idx,
                   after_complete, rev>>

PairNext ==
    \/ \E k \in 1..2 : PairIter(k)
    \/ \E k \in 1..2 : PairLoopNext(k)

PairSpec == PairInit /\ [][PairNext]_vars

\* ---- item assignment and deletion
\* The keys that are tried, 0-based as in the code: every position of the
\* longest container, and one past it.
Keys == 0..MaxItems

\* What is assigned: a Song, an Album, or None.
Values == Entries("Album") \cup Entries("Discography")

\* __setitem__ of Album and of Discography: both test
\* isinstance(value, Song), then assign to the list.
setitem(o, key, value) ==
    IF value.kind # "Song" THEN [obj |-> o, raises |-> "TypeError"]
    ELSE IF key >= len(o) THEN [obj |-> o, raises |-> "IndexError"]
    ELSE [obj |-> IF o.kind = "Album"
                    THEN [o EXCEPT !.songs[key + 1] = value]
                    ELSE [o EXCEPT !.albums[key + 1] = value],
          raises |-> NoError]

\* __delitem__: del self.songs[key], del self.albums[key]
delitem(o, key) ==
    IF key >= len(o) THEN [obj |-> o, raises |-> "IndexError"]
    ELSE LET rest == SelectIdx(Items(o), DOMAIN Items(o) \ {key + 1}, 1) IN
           [obj |-> IF o.kind = "Album" THEN [o EXCEPT !.songs = rest]
                    ELSE [o EXCEPT !.albums = rest],
            raises |-> NoError]

\* A container has been built with entries of its own type.
StoreInit ==
    /\ OrchestratorIdle
    /\ tor_controller = [present |-> FALSE, controlport |-> 0]
    /\ session = 0
    /\ CallIdle
    /\ ReplayIdle
    /\ obj \in Containers
    /\ loop = "none"
    /\ yielded = <<>>
    /\ from_idx = 0
    /\ after_complete = FALSE
    /\ rev = Pending
    /\ pair = <<>>

\* obj[key] = value
SetItem ==
    /\ \E key \in Keys, value \in Values :
         LET r == setitem(obj, key, value) IN
           /\ obj' = r.obj
           /\ call' = [fn |-> "__setitem__", key |-> key, value |-> value,
                       before |-> obj]
           /\ ret' = [raises |-> r.raises]
    /\ UNCHANGED <<orchestrator, replaying, loop, yielded, from_idx,
                   after_complete, rev, pair>>

\* del obj[key]
DelItem ==
    /\ \E key \in Keys :
         LET r == delitem(obj, key) IN
           /\ obj' = r.obj
           /\ call' = [fn |-> "__delitem__", key |-> key, before |-> obj]
           /\ ret' = [raises |-> r.raises]
    /\ UNCHANGED <<orchestrator, replaying, loop, yielded, from_idx,
                   after_complete, rev, pair>>

StoreNext ==
    \/ SetItem
    \/ DelItem

StoreSpec == StoreInit /\ [][StoreNext]_vars

\* ---- save
\* The characters normalize tells apart: white space, the hyphen, and the
\* signs that are neither \\w nor \\s; every other character is a word
\* character.
Spaces == {" "}
Signs == {"!", "?"}
Separators == Spaces \cup {"-"}

\* value.strip()
strip(text) ==
    LET solid == {i \in DOMAIN text : text[i] \notin Spaces} IN
      IF solid = {} THEN <<>>
      ELSE SubSeq(text, First(solid),
                  CHOOSE i \in solid : \A j \in solid : j <= i)

\* utils.normalize: re.sub('[^\\w\\s-]', '', value).strip(), then
\* re.sub('[-\\s]+', '-', value): the signs are removed, the ends trimmed,
\* and every run of hyphens and spaces becomes one hyphen.
normalize(value) ==
    LET kept == strip(SelectIdx(value,
                                {i \in DOMAIN value : value[i] \notin Signs}, 1))
        hyphens == [i \in DOMAIN kept |->
                      IF kept[i] \in Separators THEN "-" ELSE kept[i]]
    IN SelectIdx(hyphens,
                 {i \in DOMAIN kept :
                    ~(i > 1 /\ kept[i] \in Separators
                            /\ kept[i - 1] \in Separators)}, 1)

\* utils.set_save_folder: the components of the folder the files go under.
set_save_folder(folder) ==
    IF folder \in {NoText, ""}
      THEN <<"~", "Documents", "LyricsMaster">>
      ELSE <<folder, "LyricsMaster">>

\* open(path, "w").write(content) on the files written so far: a file that
\* is already at path is replaced.
Written(files, path, content) ==
    {f \in files : f.path # path} \cup {[path |-> path, content |-> content]}

\* os.path.join(folder, artist, album, file_name + ".txt")
PathOf(song_, folder) ==
    [folder |-> set_save_folder(folder),
     artist |-> normalize(song_.artist),
     album |-> normalize(song_.album),
     file |-> normalize(song_.title) \o <<".", "t", "x", "t">>]

\* Song.save: nothing for lyrics that are None or empty
Song_save(files, song_, folder) ==
    IF song_.lyrics \in {NoText, ""} THEN files
    ELSE Written(files, PathOf(song_, folder), song_.lyrics)

\* Album.save: for song in self.songs: if song: song.save(folder)
RECURSIVE Album_save(_, _, _, _)
Album_save(files, songs, folder, i) ==
    IF i > Len(songs) THEN files
    ELSE Album_save(IF songs[i] = None THEN files
                    ELSE Song_save(files, songs[i], folder),
                    songs, folder, i + 1)

\* Discography.save: for album in self.albums: album.save(folder)
RECURSIVE Discography_save(_, _, _, _)
Discography_save(files, albums_, folder, i) ==
    IF i > Len(albums_) THEN files
    ELSE Discography_save(Album_save(files, albums_[i].songs, folder, 1),
                          albums_, folder, i + 1)

\* The songs that are saved: titles with signs and spaces in them, lyrics
\* that differ, that are empty, that are None.
SavedArtist == <<"R", "e", "g", "g", "i", "e", " ", "W", "a", "t", "t", "s">>
SavedTitles ==
    {<<"S", "k", "i", "t">>, <<"S", "k", "i", "t", "!">>,
     <<" ", "O", "u", "t", " ", "-", " ", "r", "o", "?">>}
SavedLyrics == {"one", "two", "", NoText}
SavedEntries ==
    {Song(t, Demo, SavedArtist, l, NoText) : t \in SavedTitles, l \in SavedLyrics}
    \cup {None}
SavedContainers ==
    {Album(Demo, SavedArtist, ss, "Unknown") :
       ss \in SeqsUpTo(SavedEntries, MaxItems)}
    \cup {Discography(SavedArtist, as) :
            as \in SeqsUpTo({Album(Demo, SavedArtist, ss, "Unknown") :
                               ss \in SeqsUpTo(SavedEntries, 1)}, MaxAlbums)}
Folders == {NoText, "", "test_lyricsmaster_save"}

\* A container has been built and save is about to be called on it, with
\* no file under the save folder yet.
SaveInit ==
    /\ OrchestratorIdle
    /\ tor_controller = [present |-> FALSE, controlport |-> 0]
    /\ session = 0
    /\ ReplayIdle
    /\ obj \in SavedContainers
    /\ loop = "none"
    /\ yielded = <<>>
    /\ from_idx = 0
    /\ after_complete = FALSE
    /\ rev = Pending
    /\ pair = <<>>
    /\ call \in {[fn |-> "save", folder |-> f] : f \in Folders}
    /\ ret = Pending

\* album.save(folder)
AlbumSave ==
    /\ call.fn = "save"
    /\ ret = Pending
    /\ obj.kind = "Album"
    /\ ret' = [files |-> Album_save({}, obj.songs, call.folder, 1),
               raises |-> NoError, before |-> obj]
    /\ UNCHANGED <<orchestrator, call, iterating, replaying>>

\* discography.save(folder)
DiscographySave ==
    /\ call.fn = "save"
    /\ ret = Pending
    /\ obj.kind = "Discography"
    /\ ret' = [files |-> Discography_save({}, obj.albums, call.folder, 1),
               raises |-> NoError, before |-> obj]
    /\ UNCHANGED <<orchestrator, call, iterating, replaying>>

SaveNext ==
    \/ AlbumSave
    \/ DiscographySave

SaveSpec == SaveInit /\ [][SaveNext]_vars

\* ----------------------------------------------------------------- claims
\* What the claims say of strings, stated without the code's own helpers:
\* two characters are the same letter when they are equal or the two cases
\* of one letter.
CasePairs == {<<"D", "d">>, <<"E", "e">>, <<"I", "i">>, <<"L", "l">>,
              <<"N", "n">>, <<"O", "o">>}

SameLetter(a, b) == a = b \/ <<a, b>> \in CasePairs \/ <<b, a>> \in CasePairs

\* f is a case-insensitive substring of t.
ContainsIgnoringCase(t, f) ==
    \E i \in 0..(Len(t) - Len(f)) : \A k \in 1..Len(f) : SameLetter(t[i + k], f[k])

\* The number of elements of K up to i: the place of i among K in order.
Rank(K, i) == Cardinality({j \in K : j <= i})

Returned == discography.kind = "Discography"
LastAlbum == album_objects[Len(album_objects)]

\* C1: an artist that is not at the source (no artist URL, or a fetched page
\* failing the presence predicate) makes get_lyrics return None without an
\* exception; no album is enumerated, no circuit renewed, no song fetch
\* dispatched and no Album or Discography built.
C1_AbsentArtistReturnsNone ==
    artist_page \in {"no_url", "absent"} =>
      /\ pc \in {"check", "done"}
      /\ error = NoError
      /\ discography \in {Unset, None}
      /\ pc = "done" => discography = None
      /\ all_albums = <<>> /\ albums = <<>>
      /\ all_links = <<>> /\ song_links = <<>>
      /\ results = <<>> /\ album_objects = <<>>
      /\ rotations = 0

C1_Witness ==
    /\ artist_page = "absent"
    /\ pc = "done"
    /\ discography = None

\* C2: when the fetch of the artist page fails (get_page returns None),
\* get_lyrics returns None and does not raise.
C2_FailedArtistFetchReturnsNone ==
    artist_page = "fetch_failed" =>
      /\ error = NoError
      /\ pc # "raised"
      /\ pc = "done" => discography = None

\* The album markers the claim C3 counts: every extracted marker, or with a
\* filter every marker whose title holds the filter.
C3_AllKept ==
    {i \in DOMAIN all_albums :
       album = NoFilter \/ ContainsIgnoringCase(all_albums[i].title, album)}

\* C3 as stated: the returned Discography has exactly one Album per
\* extracted album marker (per marker matching album_filter when given).
C3_OneAlbumPerMarker ==
    Returned => Len(discography.albums) = Cardinality(C3_AllKept)

\* The markers whose (title, release_date) extraction succeeded and whose
\* title holds the filter, if one is given.
C3_Kept ==
    {i \in DOMAIN all_albums :
       /\ all_albums[i].raises = "none"
       /\ album = NoFilter \/ ContainsIgnoringCase(all_albums[i].title, album)}

\* C3 amended: the returned Discography has exactly one Album per extracted
\* album marker whose (title, release_date) extraction succeeded, restricted
\* to the titles holding album_filter (case-insensitively) when it is given,
\* in the order of the markers.
C3_OneAlbumPerExtractedMarker ==
    Returned =>
      /\ Len(discography.albums) = Cardinality(C3_Kept)
      /\ \A i \in C3_Kept :
           LET a == discography.albums[Rank(C3_Kept, i)] IN
             /\ a.kind = "Album"
             /\ a.title = all_albums[i].title
             /\ a.release_date = all_albums[i].release_date
             /\ a.artist = artist

C3_Witness ==
    /\ Returned
    /\ album # NoFilter
    /\ Len(all_albums) = 2
    /\ all_albums[1].title = <<"L", "i", "v", "e">>
    /\ all_albums[2].title = <<"D", "e", "m", "o">>
    /\ Len(discography.albums) = 1

\* The links of the last album that the song filter keeps.
C4_Kept ==
    {i \in DOMAIN all_links :
       song = NoFilter \/ ContainsIgnoringCase(all_links[i].text, song)}

\* C4: an Album has one entry per song link extracted for it and kept by
\* song_filter (case-insensitive substring of the link text); a link that
\* could not be resolved is None at its own position, a resolved one the
\* Song of that link.  Stated of the album built last, while the links it
\* was built from are still at hand.
C4_OneEntryPerLink ==
    (album_objects # <<>> /\ pc \in {"for", "get_songs", "done"}) =>
      /\ Len(LastAlbum.songs) = Cardinality(C4_Kept)
      /\ \A i \in C4_Kept :
           LET s == LastAlbum.songs[Rank(C4_Kept, i)] IN
             \/ s = None
             \/ /\ s.kind = "Song"
                /\ s.title = all_links[i].text
                /\ s.lyrics # NoText

C4_Witness ==
    /\ pc = "done"
    /\ Returned
    /\ Len(discography.albums) = 1
    /\ Len(discography.albums[1].songs) = 2
    /\ discography.albums[1].songs[1].kind = "Song"
    /\ discography.albums[1].songs[2] = None

\* C5: whatever the order in which the greenlets of an album finish, the
\* Album is built with, at position i, the value of the greenlet spawned
\* for the i-th song link.
C5_SongsInLinkOrder ==
    [][(pc = "join" /\ pc' = "for") =>
         /\ Len(album_objects') = Len(album_objects) + 1
         /\ LET a == album_objects'[Len(album_objects')] IN
              /\ Len(a.songs) = Len(song_links)
              /\ \A i \in DOMAIN song_links :
                   /\ results[i].link = song_links[i]
                   /\ a.songs[i] = results[i].value]_vars

\* The second link was resolved before the first, to a different song.
C5_Witness ==
    /\ pc = "for"
    /\ finished = <<2, 1>>
    /\ album_objects # <<>>
    /\ Len(LastAlbum.songs) = 2
    /\ LastAlbum.songs[1].kind = "Song"
    /\ LastAlbum.songs[2].kind = "Song"
    /\ LastAlbum.songs[1].title = <<"I", "n", "t", "r", "o">>
    /\ LastAlbum.songs[2].title = <<"O", "u", "t", "r", "o">>

\* C6: while the orchestrator waits in join, a greenlet that ends (with a
\* Song, with None, or with an exception) changes no other greenlet;
\* get_lyrics leaves join only when every greenlet is done, with no
\* exception, and builds the Album with each greenlet's own value, None for
\* the ones that failed.
C6_FailureIsolated ==
    [][pc = "join" =>
         /\ pc' \in {"join", "for"}
         /\ error' = NoError
         /\ pc' = "join" =>
              \A i \in DOMAIN results :
                (results'[i] # results[i]) =>
                  /\ results[i].status = "running"
                  /\ \A j \in DOMAIN results \ {i} : results'[j] = results[j]
         /\ pc' = "for" =>
              /\ \A i \in DOMAIN results : results[i].status = "done"
              /\ Len(album_objects') = Len(album_objects) + 1
              /\ \A i \in DOMAIN results :
                   /\ album_objects'[Len(album_objects')].songs[i] = results[i].value
                   /\ results[i].exception # NoError => results[i].value = None]_vars

\* The first greenlet died of an exception, the second one ended with its
\* Song after that.
C6_Witness ==
    /\ pc = "join"
    /\ Len(results) = 2
    /\ finished = <<1, 2>>
    /\ results[1].exception = "AttributeError"
    /\ results[1].value = None
    /\ results[2].value.kind = "Song"

\* C7: with a control channel, renew_tor_circuit has been called once for
\* every album that reached its downloads (the albums built, and the one in
\* progress), and a greenlet of an album exists only after the call made
\* for that album; without a control channel it is never called.
C7_OneRotationPerAlbum ==
    /\ ~HasControlChannel => (rotations = 0 /\ renewed = "none")
    /\ HasControlChannel =>
         /\ rotations = Len(album_objects)
                        + (IF \/ pc \in {"spawn", "join"}
                              \/ (pc = "raised" /\ error = "SocketError")
                             THEN 1 ELSE 0)
         /\ results # <<>> => rotations = Len(album_objects) + 1

C7_Witness ==
    /\ HasControlChannel
    /\ pc = "done"
    /\ Returned
    /\ Len(discography.albums) = 2
    /\ rotations = 2

\* C8: with a control channel the song fetches of an album are serialized:
\* at most one greenlet of the pool is alive at any time.
C8_SerializedWithControlChannel ==
    HasControlChannel => Cardinality(Alive(results)) <= 1

\* C9: the session is replaced and the circuit renewed only between
\* albums: in the step that does either, no greenlet is alive, before or
\* after it, and the orchestrator is at the renewal of the next album.
C9_NoSwapInFlight ==
    [][(session' # session \/ rotations' # rotations) =>
         /\ pc = "rotate"
         /\ Alive(results) = {}
         /\ Alive(results') = {}]_vars

\* A batch of the second album is in flight on the session made for it.
C9_Witness ==
    /\ HasControlChannel
    /\ Len(album_objects) = 1
    /\ Len(LastAlbum.songs) = 1
    /\ session = 2
    /\ pc = "join"
    /\ Alive(results) # {}

\* C10: a declined rotation (renew_tor_circuit returned False) abandons
\* nothing: get_lyrics goes on without an exception, spawns a greenlet for
\* every song link of the album before it joins, and builds the Album with
\* one entry per link.
C10_DeclinedRotationGoesOn ==
    renewed = "declined" =>
      IF rotations = Len(album_objects) + 1
        THEN /\ pc \in {"spawn", "join"}
             /\ error = NoError
             /\ Len(results) <= Len(song_links)
             /\ pc = "join" => Len(results) = Len(song_links)
             /\ \A i \in DOMAIN results : results[i].link = song_links[i]
        ELSE /\ rotations = Len(album_objects)
             /\ album_objects[rotations].kind = "Album"
             /\ pc \in {"for", "get_songs", "done"} =>
                  Len(album_objects[rotations].songs) = Len(song_links)

C10_Witness ==
    /\ renewed = "declined"
    /\ pc = "done"
    /\ Returned
    /\ rotations = 1
    /\ Len(discography.albums) = 1
    /\ Len(discography.albums[1].songs) = 2

\* The artist page lists no album, or none whose title holds the album
\* filter, and every marker it lists gives its title and release date.
C11_ZeroAlbums ==
    /\ artist_page = "found"
    /\ pc \notin {"start", "check", "get_albums", "filter_albums"}
    /\ \A i \in DOMAIN all_albums : all_albums[i].raises = "none"
    /\ C3_AllKept = {}

C12_NoLinkKept ==
    /\ song # NoFilter
    /\ all_links # <<>>
    /\ C4_Kept = {}

\* C12: when song_filter matches no link of an album, no fetch is dispatched
\* for it (no greenlet is spawned, none finishes) and the album is still
\* appended, as an Album with an empty song list, and returned.
C12_EmptyAlbumKept ==
    C12_NoLinkKept =>
      /\ pc # "spawn"
      /\ results = <<>>
      /\ pc \in {"join", "for", "get_songs", "done"} => finished = <<>>
      /\ pc \in {"for", "get_songs", "done"} =>
           /\ album_objects # <<>>
           /\ LastAlbum.kind = "Album"
           /\ LastAlbum.songs = <<>>
      /\ pc \in {"for", "done"} => LastAlbum.title = album_title
      /\ pc = "done" =>
           /\ discography.kind = "Discography"
           /\ discography.albums = album_objects

\* The first album kept one link, the second none.
C12_Witness ==
    /\ pc = "done"
    /\ C12_NoLinkKept
    /\ discography.kind = "Discography"
    /\ Len(discography.albums) = 2
    /\ Len(discography.albums[1].songs) = 1
    /\ discography.albums[2].songs = <<>>

\* C19 as stated: when the extraction of (title, release_date) fails for an
\* album marker, at any position and with or without album_filter,
\* get_lyrics does not raise, skips that album only and returns an Album for
\* every other marker.
C19_FailedExtractionSkipsOnlyThatAlbum ==
    (\E i \in DOMAIN all_albums : all_albums[i].raises # "none") =>
      /\ error \notin {"ValueError", "IndexError", "UnboundLocalError"}
      /\ Returned => Len(discography.albums) = Cardinality(C3_Kept)

\* The greenlets of the pool that have not run to their end.
C20_InFlight == {i \in DOMAIN results : results[i].status = "running"}

\* The markers before the current one that gave a title and a date.
C20_Earlier == {j \in 1..(idx - 1) : j \in DOMAIN albums /\ albums[j].raises = "none"}

\* C20: the song fetches of two albums are never in flight together.  The
\* greenlets that exist are those of the current album, spawned for its own
\* links; none is left when the Album is appended, and when the links of an
\* album are enumerated or dispatched every earlier album has been gathered
\* into its Album.
C20_OneAlbumInFlight ==
    /\ pc \notin {"spawn", "join"} => results = <<>>
    /\ C20_InFlight # {} => pc \in {"spawn", "join"}
    /\ pc \in {"spawn", "join"} =>
         /\ Len(results) <= Len(song_links)
         /\ \A i \in DOMAIN results :
              /\ results[i].link = song_links[i]
              /\ results[i].album_title = album_title
    /\ pc \in {"get_songs", "rotate", "spawn", "join"} =>
         /\ Len(album_objects) = Cardinality(C20_Earlier)
         /\ \A a \in 1..Len(album_objects) :
              \A k \in DOMAIN album_objects[a].songs :
                album_objects[a].songs[k] # None =>
                  album_objects[a].songs[k].kind = "Song"

\* A fetch of the second album is in flight after the first album was built
\* with a song of its own, without any control channel.
C20_Witness ==
    /\ pc = "join"
    /\ ~tor_controller.present
    /\ Len(album_objects) = 1
    /\ Len(album_objects[1].songs) = 1
    /\ album_objects[1].songs[1] # None
    /\ album_objects[1].title # album_title
    /\ C20_InFlight = {1}

\* C13: get_page(url) never raises: when the request fails at transport
\* level it returns None, otherwise the response of that URL, and
\* self.session is the same object after the call as before it.
C13_GetPageNeverRaises ==
    (call.fn = "get_page" /\ ret # Pending) =>
      /\ ret.raises = NoError
      /\ call.answer = "response" =>
           ret.value = [kind |-> "HTTPResponse", url |-> call.url]
      /\ call.answer # "response" => ret.value = None
      /\ session = ret.before

\* A request refused for its certificate, on a session that is not the
\* first one.
C13_Witness ==
    /\ call.fn = "get_page"
    /\ call.answer = "SSLError"
    /\ ret # Pending
    /\ ret.value = None
    /\ session = 1

\* The link is marked as non-existent (LyricWiki marks its links so).
C17_Marked == call.adapter = "LyricWiki" /\ call.link.missing

\* C17 as stated: create_song returns None when the link is marked as
\* non-existent or the fetched page fails the lyrics-presence predicate,
\* and otherwise a Song with the artist and the album passed in and lyrics
\* that are not None; for LyricWiki a marked link is answered without any
\* page fetch.
C17_CreateSongNoneOrSong ==
    (call.fn = "create_song" /\ ret # Pending) =>
      /\ ret.raises = NoError
      /\ IF C17_Marked \/ (call.answer = "response" /\ call.page = "no_lyrics")
           THEN ret.value = None
           ELSE /\ ret.value # None
                /\ ret.value.kind = "Song"
                /\ ret.value.artist = call.artist
                /\ ret.value.album = call.album_title
                /\ ret.value.lyrics # NoText
      /\ C17_Marked => ret.fetches = 0

\* The marker holds no release date the adapter could find: no closed
\* bracket (LyricWiki, AzLyrics), no 'Released' unit on the album page that
\* was fetched (Genius), no ': ' (Lyrics007), no h3 (MusixMatch); the title
\* is where the adapter looks for it.
C18_NoReleaseDate ==
    /\ call.fn = "get_album_infos"
    /\ CASE call.adapter = "LyricWiki" ->
              \A k \in DOMAIN call.tag.text : call.tag.text[k] # ")"
         [] call.adapter = "AzLyrics" ->
              /\ call.tag.album # <<>>
              /\ \A k \in DOMAIN call.tag.text : call.tag.text[k] # ")"
         [] call.adapter = "Genius" ->
              /\ call.tag.answer = "response"
              /\ \A k \in DOMAIN call.tag.units : call.tag.units[k][1] # "R"
         [] call.adapter = "Lyrics007" ->
              \A k \in DOMAIN call.tag.text : call.tag.text[k] # ":"
         [] call.adapter = "MusixMatch" ->
              call.tag.h2 # <<>> /\ call.tag.h3 = <<>>

\* C18 as stated: for every adapter, get_album_infos on a marker whose
\* release date cannot be located does not raise and returns a title with
\* the release date "Unknown".
C18_UnknownReleaseDate ==
    (C18_NoReleaseDate /\ ret # Pending) =>
      /\ ret.raises = NoError
      /\ ret.value.release_date = Unknown

\* C15: reversed(album) gives exactly album.songs in reverse order, and
\* reversed(discography) its albums in reverse order, whatever the entries
\* (None among them) and wherever the forward cursor stands.
C15_ReversedIsReverse ==
    rev # Pending =>
      LET stored == IF obj.kind = "Album" THEN obj.songs ELSE obj.albums IN
        /\ Len(rev.value) = Len(stored)
        /\ \A i \in 1..Len(stored) : rev.value[i] = stored[Len(stored) + 1 - i]

\* An album with a None entry, reversed while the forward cursor stood at
\* its second entry.
C15_Witness ==
    /\ rev # Pending
    /\ obj.kind = "Album"
    /\ Len(obj.songs) = 3
    /\ obj.songs[1] = None
    /\ obj.songs[3] # None
    /\ rev.idx = 2
    /\ rev.value[3] = None

\* C16: a complete forward iteration that begins with the cursor at 0 is
\* given exactly the stored entries in their order, as many as len reports,
\* and leaves the cursor at 0; so is one that follows a complete iteration.
C16_CompleteIterationYieldsAll ==
    LET stored == IF obj.kind = "Album" THEN obj.songs ELSE obj.albums IN
      /\ (loop = "exhausted" /\ from_idx = 0) =>
           /\ yielded = stored
           /\ Len(yielded) = len(obj)
           /\ obj.idx = 0
      /\ (loop = "exhausted" /\ after_complete) =>
           /\ from_idx = 0
           /\ yielded = stored

\* A second complete iteration in a row, over an album that holds a None.
C16_Witness ==
    /\ loop = "exhausted"
    /\ after_complete
    /\ obj.kind = "Album"
    /\ Len(yielded) = 3
    /\ yielded[2] = None
    /\ obj.idx = 0

\* C14: two calls of get_lyrics with the same arguments on a source that
\* answers the second call as it answered the first return equal values
\* (the same Discography tree), however the greenlets are scheduled and
\* whatever the rotations end with.
C14_SecondCallReturnsTheSame ==
    (calls = 2 /\ pc = "done") => discography = first

\* Both calls returned one album with a song and a None;
\* the greenlets of the second call finished in the reverse order, and the
\* circuit was renewed.
C14_Witness ==
    /\ calls = 2
    /\ pc = "done"
    /\ first.kind = "Discography"
    /\ Len(first.albums) = 1
    /\ Len(first.albums[1].songs) = 2
    /\ first.albums[1].songs[1] # None
    /\ first.albums[1].songs[2] = None
    /\ finished = <<2, 1>>
    /\ session > 1

\* The session the provider holds, counted from the one made at
\* construction: one more for every album whose downloads were reached.
C25_SessionOfAlbum ==
    IF HasControlChannel
      THEN Len(album_objects) + (IF pc \in {"spawn", "join"} THEN 1 ELSE 0)
      ELSE 0

\* A step that rebuilds the session is the step of an album's rotation
\* request that returned, and such a step rebuilds it once.
C25_RebuiltWithRotation ==
    /\ session' # session =>
         /\ HasControlChannel
         /\ pc = "rotate"
         /\ rotations' = rotations + 1
         /\ renewed' \in {"granted", "declined"}
         /\ session' = session + 1
    /\ (rotations' # rotations /\ renewed' \in {"granted", "declined"}) =>
         session' = session + 1

\* C25: without a control channel (no Tor controller, or one without
\* controlport) the session made at construction is the session of the
\* provider in every state of get_lyrics, the states in which greenlets
\* fetch included; with a control channel the session is rebuilt once for
\* every album that reaches its downloads, in the step of the rotation
\* request and in no other.
C25_SessionKeptWithoutChannel ==
    /\ [](session = C25_SessionOfAlbum)
    /\ [][C25_RebuiltWithRotation]_vars

\* A controller without controlport: the second album's greenlets fetch on
\* the session of construction.
C25_Witness ==
    /\ tor_controller.present
    /\ ~HasControlChannel
    /\ Len(album_objects) = 1
    /\ pc = "join"
    /\ Alive(results) # {}
    /\ session = 0
    /\ rotations = 0

\* C29 as stated: the title LyricWiki.get_album_infos returns is the
\* heading text before the first " (", and the whole heading text, every
\* character of it, when the heading holds no " (".
C29_TitleIsHeadingBeforeParenthesis ==
    (/\ call.fn = "get_album_infos"
     /\ call.adapter = "LyricWiki"
     /\ ret # Pending
     /\ ret.raises = NoError) =>
      LET text == call.tag.text
          at == {i \in 1..(Len(text) - 1) : text[i] = " " /\ text[i + 1] = "("}
      IN IF at = {}
           THEN ret.value.title = text
           ELSE \E i \in at :
                  /\ \A j \in at : i <= j
                  /\ ret.value.title = SubSeq(text, 1, i - 1)

\* C22 as stated: every for-loop over a container starts at its first
\* entry and is given the whole sequence, whatever happened to the loops
\* before it: what a running loop has been given is the beginning of the
\* stored entries, and what a loop that ran to its end was given is all of
\* them.
C22_EveryLoopStartsAtFirst ==
    /\ loop = "running" => yielded = SubSeq(Items(obj), 1, Len(yielded))
    /\ loop = "exhausted" => yielded = Items(obj)

\* C23 as stated: of two loops over one container whose steps interleave,
\* each is given the complete sequence of entries in order: what a loop has
\* been given so far is the beginning of the stored entries, and a loop
\* ends only after it was given all of them.
C23_EachLoopSeesAll ==
    \A k \in DOMAIN pair :
      /\ pair[k].yielded = SubSeq(Items(obj), 1, Len(pair[k].yielded))
      /\ pair[k].loop = "exhausted" => pair[k].yielded = Items(obj)

\* The value has the element type of the container: an Album for a
\* Discography, a Song for an Album.
C24_ElementType(o, value) ==
    value.kind = (IF o.kind = "Discography" THEN "Album" ELSE "Song")

\* C24 as stated: after any assignments and deletions every entry of a
\* Discography is an Album and every entry of an Album a Song or None; an
\* assignment of a value of the element type does not raise TypeError, and
\* one of any other value raises TypeError and leaves the container as it
\* was.
C24_EntriesKeepTheirType ==
    /\ \A i \in DOMAIN Items(obj) :
         \/ C24_ElementType(obj, Items(obj)[i])
         \/ (obj.kind = "Album" /\ Items(obj)[i] = None)
    /\ call.fn = "__setitem__" =>
         IF C24_ElementType(call.before, call.value)
           THEN ret.raises # "TypeError"
           ELSE ret.raises = "TypeError" /\ obj = call.before

\* C26 as stated: whatever controlport the controller was built with, a
\* call of renew_tor_circuit that returns gives a bool: True exactly when
\* it sent NEWNYM, which it does exactly when the network takes a rotation
\* at once, and False, with no signal sent, when the network does not.
C26_RenewReturnsBool ==
    (/\ call.fn = "renew_tor_circuit"
     /\ ret # Pending
     /\ ret.raises = NoError) =>
      /\ ret.value.kind = "bool"
      /\ ret.value = Bool(ret.signals = <<"NEWNYM">>)
      /\ ret.value = Bool(call.answer = "newnym_available")

\* C30 as stated: whatever get_lyrics returns, main ends without an
\* exception of its own; when get_lyrics returned None nothing was saved;
\* for a provider name that is not supported main ends with no provider
\* built, no page asked for and nothing saved.
C30_MainHandlesEveryOutcome ==
    (call.fn = "main" /\ pc = "exited") =>
      /\ discography # Unset => error = NoError
      /\ discography = None => ~ret.saved
      /\ lower(call.provider) \notin DOMAIN CURRENT_PROVIDERS =>
           /\ ret.provider_instance = "unbound"
           /\ artist_page = "unset"
           /\ discography = Unset
           /\ ~ret.saved
           /\ error = NoError

\* The entries save is about: the songs of the album, or of every album of
\* the discography.
RECURSIVE C28_SongsOf(_, _)
C28_SongsOf(albums_, i) ==
    IF i > Len(albums_) THEN <<>>
    ELSE albums_[i].songs \o C28_SongsOf(albums_, i + 1)

C28_Entries ==
    IF obj.kind = "Album" THEN obj.songs ELSE C28_SongsOf(obj.albums, 1)

\* The entries that are Songs with lyrics that are not empty.
C28_WithLyrics ==
    {i \in DOMAIN C28_Entries :
       /\ C28_Entries[i] # None
       /\ C28_Entries[i].lyrics \notin {NoText, ""}}

\* C28 as stated: after save every entry that is a Song with lyrics has
\* its file at <root>/LyricsMaster/<normalized artist>/<normalized
\* album>/<normalized title>.txt, holding exactly the lyrics of that entry;
\* the other entries give no file and no error, and the container and its
\* entries are after the save what they were before.
C28_OneFilePerSongWithLyrics ==
    (call.fn = "save" /\ ret # Pending) =>
      /\ ret.raises = NoError
      /\ obj = ret.before
      /\ \A i \in C28_WithLyrics :
           [path |-> PathOf(C28_Entries[i], call.folder),
            content |-> C28_Entries[i].lyrics] \in ret.files
      /\ \A f \in ret.files :
           /\ \E i \in C28_WithLyrics :
                f.path = PathOf(C28_Entries[i], call.folder)
           /\ f.path.folder[Len(f.path.folder)] = "LyricsMaster"
           /\ SubSeq(f.path.file, Len(f.path.file) - 3, Len(f.path.file))
                = <<".", "t", "x", "t">>

\* A step that dispatches a link: it dispatches one, the next in link
\* order, and it is taken with fewer than PoolSize greenlets alive: for a
\* link beyond the pool width, after greenlets have ended.
C21_DispatchedAsWorkersFinish ==
    Len(results') > Len(results) =>
      /\ Len(results') = Len(results) + 1
      /\ results'[Len(results')].link = song_links[Len(results')]
      /\ Cardinality(Alive(results)) < PoolSize

\* C21: whatever the number of song links of the album, at most PoolSize
\* (25) greenlets are alive in every state; a link is dispatched only in a
\* state with a free place in the pool; and every link is dispatched: the
\* orchestrator reaches pool.join() with one greenlet started for every
\* link, provided every greenlet that was started ends.
C21_AtMostPoolSizeInFlight ==
    /\ [](Cardinality(Alive(results)) <= PoolSize)
    /\ [][C21_DispatchedAsWorkersFinish]_vars
    /\ [](pc = "join" => Len(results) = Len(song_links))
    /\ <>(pc = "join" /\ Len(results) = Len(song_links))

\* An album of 27 links: 26 are dispatched, the pool is full again and the
\* last link waits for a greenlet to end.
C21_Witness ==
    /\ Len(song_links) = PoolSize + 2
    /\ Len(results) = PoolSize + 1
    /\ Cardinality(Alive(results)) = PoolSize
    /\ pc = "spawn"

\* C27 as stated: when every step that can be taken is taken in the end
\* (every page fetch completes or fails), get_lyrics returns, a Discography
\* or None; and once the greenlets of a batch have all ended, the step that
\* follows is the return of pool.join().
C27_GetLyricsEventuallyReturns ==
    /\ <>(pc = "done" /\ discography # Unset)
    /\ [][(pc = "join" /\ Alive(results) = {}) => pc' = "for"]_vars

====
